---- MODULE Spec2Model ----
(***************************************************************************)
(* Documentation build orchestration script (scripts/generate-docs.ts and   *)
(* its revisions): tag resolution against a semver spec, the per-version    *)
(* build pipeline (worktree, install, content build, copy, cleanup) and the *)
(* generated versions manifest.                                             *)
(*                                                                          *)
(* Strings are sequences of one-character strings, so that splitting,       *)
(* trimming and version parsing are computed character by character.        *)
(***************************************************************************)
EXTENDS Integers, Sequences, FiniteSets, TLC

(***************************************************************************)
(* Characters and basic string functions (JavaScript String methods).       *)
(***************************************************************************)

\* The characters of the model in ASCII order (upper case letters left out).
Alphabet ==
  << " ", "*", "+", ",", "-", ".",
     "0", "1", "2", "3", "4", "5", "6", "7", "8", "9",
     "<", "=", ">", "^", "_",
     "a", "b", "c", "d", "e", "f", "g", "h", "i", "j", "k", "l", "m",
     "n", "o", "p", "q", "r", "s", "t", "u", "v", "w", "x", "y", "z", "~" >>

\* Code point order of a character (its position in Alphabet).
Ord(c) == CHOOSE i \in 1..Len(Alphabet) : Alphabet[i] = c

Digits == {"0", "1", "2", "3", "4", "5", "6", "7", "8", "9"}

Letters == {"a", "b", "c", "d", "e", "f", "g", "h", "i", "j", "k", "l", "m",
            "n", "o", "p", "q", "r", "s", "t", "u", "v", "w", "x", "y", "z"}

DigitVal(c) == Ord(c) - Ord("0")

\* Position of the first occurrence of character c in s, 0 when absent.
IndexOf(s, c) ==
  IF \E i \in 1..Len(s) : s[i] = c
    THEN CHOOSE i \in 1..Len(s) : s[i] = c /\ \A j \in 1..(i - 1) : s[j] # c
    ELSE 0

\* String.prototype.split(sep) for a one-character separator.
RECURSIVE Split(_, _)
Split(s, sep) ==
  LET i == IndexOf(s, sep)
  IN  IF i = 0 THEN << s >>
      ELSE << SubSeq(s, 1, i - 1) >> \o Split(SubSeq(s, i + 1, Len(s)), sep)

\* String.prototype.trim (blanks are the only white space of the model).
RECURSIVE TrimLeft(_)
TrimLeft(s) ==
  IF s # << >> /\ Head(s) = " " THEN TrimLeft(Tail(s)) ELSE s

RECURSIVE TrimRight(_)
TrimRight(s) ==
  IF s # << >> /\ s[Len(s)] = " " THEN TrimRight(SubSeq(s, 1, Len(s) - 1)) ELSE s

Trim(s) == TrimRight(TrimLeft(s))

Elems(xs) == {xs[i] : i \in 1..Len(xs)}

(***************************************************************************)
(* The semver package, as the script uses it: valid, satisfies with         *)
(* includePrerelease, rcompare.                                             *)
(***************************************************************************)

\* NUMERICIDENTIFIER: 0|[1-9]\d*
IsNumericId(s) ==
  /\ s # << >>
  /\ \A i \in 1..Len(s) : s[i] \in Digits
  /\ (Len(s) > 1 => s[1] # "0")

RECURSIVE NumVal(_)
NumVal(s) ==
  IF s = << >> THEN 0
  ELSE 10 * NumVal(SubSeq(s, 1, Len(s) - 1)) + DigitVal(s[Len(s)])

IdChar(c) == c \in Digits \/ c \in Letters \/ c = "-"

\* NONNUMERICIDENTIFIER: \d*[a-zA-Z-][a-zA-Z0-9-]*
IsNonNumericId(s) ==
  /\ s # << >>
  /\ \A i \in 1..Len(s) : IdChar(s[i])
  /\ \E i \in 1..Len(s) : s[i] \notin Digits

\* BUILDIDENTIFIER: [a-zA-Z0-9-]+
IsBuildId(s) == s # << >> /\ \A i \in 1..Len(s) : IdChar(s[i])

InvalidVersion == [valid |-> FALSE]

\* One prerelease identifier: numeric identifiers become numbers.
PreId(s) == IF IsNumericId(s) THEN [num |-> TRUE, n |-> NumVal(s), s |-> s]
            ELSE [num |-> FALSE, n |-> 0, s |-> s]

\* The optional leading "v" of the FULL regular expression.
StripV(t) == IF t # << >> /\ Head(t) = "v" THEN Tail(t) ELSE t

\* The part of s before, and after, the first occurrence of ch.
Before(s, ch) ==
  LET i == IndexOf(s, ch) IN IF i = 0 THEN s ELSE SubSeq(s, 1, i - 1)

After(s, ch) ==
  LET i == IndexOf(s, ch) IN IF i = 0 THEN << >> ELSE SubSeq(s, i + 1, Len(s))

Has(s, ch) == IndexOf(s, ch) # 0

\* The groups of the FULL regular expression, once split on dots: the three
\* numeric identifiers, the prerelease identifiers and the build identifiers.
SemVerParts(hasPre, hasBuild, nums, preIds, buildIds) ==
  IF /\ Len(nums) = 3
     /\ \A i \in 1..3 : IsNumericId(nums[i])
     /\ (hasPre =>
           \A i \in 1..Len(preIds) :
              IsNumericId(preIds[i]) \/ IsNonNumericId(preIds[i]))
     /\ (hasBuild => \A i \in 1..Len(buildIds) : IsBuildId(buildIds[i]))
    THEN [valid |-> TRUE,
          major |-> NumVal(nums[1]),
          minor |-> NumVal(nums[2]),
          patch |-> NumVal(nums[3]),
          prerelease |-> IF hasPre
                           THEN [i \in 1..Len(preIds) |-> PreId(preIds[i])]
                           ELSE << >>,
          build |-> IF hasBuild THEN buildIds ELSE << >>]
    ELSE InvalidVersion

\* MAIN(-PRERELEASE)? once the build metadata is cut off.
SemVerFront(front, hasBuild, build) ==
  SemVerParts(Has(front, "-"), hasBuild,
              Split(Before(front, "-"), "."),
              Split(After(front, "-"), "."),
              Split(build, "."))

\* MAIN(-PRERELEASE)?(\+BUILD)?
SemVerBody(body) ==
  SemVerFront(Before(body, "+"), Has(body, "+"), After(body, "+"))

\* new SemVer(version) in strict mode: the FULL regular expression
\*   ^v?MAIN(-PRERELEASE)?(\+BUILD)?$   applied to version.trim().
SemVer(version) == SemVerBody(StripV(Trim(version)))

\* semver.valid(tag): the tag parses as a semantic version.
valid(tag) == SemVer(tag).valid

Sign(a, b) == IF a < b THEN -1 ELSE IF a > b THEN 1 ELSE 0

\* The first comparison that decides.
FirstNonZero(c, d) == IF c # 0 THEN c ELSE d

\* String comparison by code points.
RECURSIVE CompareStrings(_, _)
CompareStrings(a, b) ==
  IF a = << >> /\ b = << >> THEN 0
  ELSE IF a = << >> THEN -1
  ELSE IF b = << >> THEN 1
  ELSE IF Head(a) # Head(b) THEN Sign(Ord(Head(a)), Ord(Head(b)))
  ELSE CompareStrings(Tail(a), Tail(b))

\* compareIdentifiers: numbers before strings, numbers by value.
CompareIdentifiers(a, b) ==
  IF a.num /\ b.num THEN Sign(a.n, b.n)
  ELSE IF a.num THEN -1
  ELSE IF b.num THEN 1
  ELSE CompareStrings(a.s, b.s)

\* SemVer.comparePre on the identifier lists.
RECURSIVE ComparePreLists(_, _)
ComparePreLists(a, b) ==
  IF a = << >> /\ b = << >> THEN 0
  ELSE IF b = << >> THEN 1
  ELSE IF a = << >> THEN -1
  ELSE FirstNonZero(CompareIdentifiers(Head(a), Head(b)),
                    ComparePreLists(Tail(a), Tail(b)))

ComparePre(a, b) ==
  IF a.prerelease # << >> /\ b.prerelease = << >> THEN -1
  ELSE IF a.prerelease = << >> /\ b.prerelease # << >> THEN 1
  ELSE ComparePreLists(a.prerelease, b.prerelease)

CompareMain(a, b) ==
  IF a.major # b.major THEN Sign(a.major, b.major)
  ELSE IF a.minor # b.minor THEN Sign(a.minor, b.minor)
  ELSE Sign(a.patch, b.patch)

\* SemVer.compare: precedence of two parsed versions; build metadata is ignored.
Compare(a, b) == FirstNonZero(CompareMain(a, b), ComparePre(a, b))

\* semver.rcompare(a, b) on two tags.
rcompare(a, b) == Compare(SemVer(b), SemVer(a))

\* Comparator operators of a range, longest first.
Operators == << << "<", "=" >>, << ">", "=" >>, << "<" >>, << ">" >>, << "=" >> >>

HasPrefix(s, p) == Len(s) >= Len(p) /\ SubSeq(s, 1, Len(p)) = p

\* The operator a comparator starts with, << >> when it starts with none.
OperatorOf(t) ==
  IF \E k \in 1..Len(Operators) : HasPrefix(t, Operators[k])
    THEN Operators[CHOOSE k \in 1..Len(Operators) :
                     /\ HasPrefix(t, Operators[k])
                     /\ \A j \in 1..(k - 1) : ~HasPrefix(t, Operators[j])]
    ELSE << >>

ComparatorParts(t, op, sv) ==
  IF t = << >> THEN [valid |-> TRUE, any |-> TRUE]
  ELSE IF ~sv.valid THEN [valid |-> FALSE, any |-> FALSE]
  ELSE [valid |-> TRUE, any |-> FALSE,
        operator |-> IF op = << "=" >> THEN << >> ELSE op, semver |-> sv]

ComparatorOf(t, op) ==
  ComparatorParts(t, op, SemVer(SubSeq(t, Len(op) + 1, Len(t))))

\* The range language of the model: the empty range, a word that is no
\* comparator, or one comparator made of an optional operator and a full
\* version.  Hyphen, caret, tilde, x-ranges and "||" are not modelled and
\* no input of the model uses them.
\* new Comparator(comp): [any |-> TRUE] for the empty range, which every
\* version satisfies; otherwise an operator and a version.
Comparator(comp) == ComparatorOf(Trim(comp), OperatorOf(Trim(comp)))

CmpResult(c, op) ==
  CASE op = << >>          -> c = 0
    [] op = << "<" >>      -> c < 0
    [] op = << "<", "=" >> -> c <= 0
    [] op = << ">" >>      -> c > 0
    [] op = << ">", "=" >> -> c >= 0

\* cmp(version, operator, semver) of the semver package.
Cmp(v, op, w) == CmpResult(Compare(v, w), op)

\* Range.test(version) on a parsed version and a parsed comparator: without
\* includePrerelease a prerelease version is accepted only by a comparator
\* that names a prerelease of the same major.minor.patch.
RangeTest(v, c, includePrerelease) ==
  /\ v.valid
  /\ c.valid
  /\ (~c.any => Cmp(v, c.operator, c.semver))
  /\ (v.prerelease # << >> /\ ~includePrerelease =>
        /\ ~c.any
        /\ c.semver.prerelease # << >>
        /\ c.semver.major = v.major
        /\ c.semver.minor = v.minor
        /\ c.semver.patch = v.patch)

\* semver.satisfies(version, range, {includePrerelease}): false for a tag
\* that is no version and for a range that does not parse.
satisfies(version, range, includePrerelease) ==
  RangeTest(SemVer(version), Comparator(range), includePrerelease)

(***************************************************************************)
(* resolveTagsFromSpec                                                     *)
(***************************************************************************)

NonEmpty(s) == s # << >>

\* spec.split(",").map(t => t.trim())  without the filter(Boolean).
SpecTokensUnfiltered(spec) ==
  LET parts == Split(spec, ",") IN [i \in 1..Len(parts) |-> Trim(parts[i])]

\* spec.split(",").map(t => t.trim()).filter(Boolean)
SpecTokens(spec) ==
  LET parts == Split(spec, ",")
  IN  SelectSeq([i \in 1..Len(parts) |-> Trim(parts[i])], NonEmpty)

\* tokens.every(...) in place of tokens.some(...).
MatchedTagsEvery(tags, tokens) ==
  LET Hit(tag) == \A i \in 1..Len(tokens) : satisfies(tag, tokens[i], TRUE)
  IN  SelectSeq(tags, Hit)

\* tags.filter(tag => tokens.some(token => semver.satisfies(tag, token,
\*   { includePrerelease: true })))
MatchedTags(tags, tokens) ==
  LET Hit(tag) == \E i \in 1..Len(tokens) : satisfies(tag, tokens[i], TRUE)
  IN  SelectSeq(tags, Hit)

\* semver.compare(a, b) on two tags.
compare(a, b) == Compare(SemVer(a), SemVer(b))

\* x placed at position k of xs.
InsertAt(x, xs, k) ==
  SubSeq(xs, 1, k - 1) \o << x >> \o SubSeq(xs, k, Len(xs))

\* The least position of before, Len(xs) + 1 when there is none.
FirstOf(before, xs) ==
  IF before = {} THEN Len(xs) + 1
  ELSE CHOOSE i \in before : \A j \in before : i <= j

\* x inserted into the ascending list xs, after its equals.
InsertSortedAscending(x, xs) ==
  InsertAt(x, xs, FirstOf({i \in 1..Len(xs) : compare(x, xs[i]) < 0}, xs))

\* matched.sort(semver.compare): ascending.
RECURSIVE SortTagsAscending(_)
SortTagsAscending(matched) ==
  IF matched = << >> THEN << >>
  ELSE InsertSortedAscending(matched[Len(matched)],
                             SortTagsAscending(SubSeq(matched, 1, Len(matched) - 1)))

\* x inserted into the list xs, sorted by rcompare, before the first element
\* it precedes, so after its equals (Array.prototype.sort is stable).
InsertSorted(x, xs) ==
  InsertAt(x, xs, FirstOf({i \in 1..Len(xs) : rcompare(x, xs[i]) < 0}, xs))

\* matched.sort(semver.rcompare)
RECURSIVE SortTags(_)
SortTags(matched) ==
  IF matched = << >> THEN << >>
  ELSE InsertSorted(matched[Len(matched)],
                    SortTags(SubSeq(matched, 1, Len(matched) - 1)))

\* The comparator of the sort throws on a string that is no version; it is
\* called only when the array has two elements or more.
SortThrows(matched) ==
  Len(matched) >= 2 /\ \E i \in 1..Len(matched) : ~valid(matched[i])

\* The outcome of matched.sort(semver.rcompare).
Sorted(matched) == [threw |-> SortThrows(matched), tags |-> SortTags(matched)]

\* resolveTagsFromSpec(spec) over the output of `git tag --list`.
resolveTagsFromSpec(spec, allTags) ==
  Sorted(MatchedTags(SelectSeq(allTags, valid), SpecTokens(spec)))

(***************************************************************************)
(* Inputs of the model                                                     *)
(***************************************************************************)

Tag_1_0_0      == << "1", ".", "0", ".", "0" >>
Tag_1_0_0_b    == << "1", ".", "0", ".", "0", "+", "b" >>
Tag_rc1        == << "r", "c", "1" >>
Tag_v1_0_0     == << "v", "1", ".", "0", ".", "0" >>
Tag_v1_2_0     == << "v", "1", ".", "2", ".", "0" >>
Tag_v2_0_0beta == << "v", "2", ".", "0", ".", "0", "-", "b", "e", "t", "a", ".", "1" >>

\* Candidate tags in the order `git tag --list` prints them (by refname):
\* plain and v-prefixed versions, a prerelease, a version with build
\* metadata and a tag that is no version.
TagUniverse ==
  << Tag_1_0_0, Tag_1_0_0_b, Tag_rc1, Tag_v1_0_0, Tag_v1_2_0, Tag_v2_0_0beta >>

Spec_empty    == << >>
Spec_blank    == << " ", " " >>
Spec_comma    == << "," >>
Spec_ge1      == << ">", "=", "1", ".", "0", ".", "0" >>
Spec_v1       == << "v", "1", ".", "0", ".", "0" >>
Spec_v9       == << "v", "9", ".", "9", ".", "9" >>
Spec_lt2      == << "<", "2", ".", "0", ".", "0" >>
Spec_spaced   == << " ", "<", "1", ".", "2", ".", "0", " ", ",", " ", ",", "2", ".", "0", ".", "0", "-", "b", "e", "t", "a", ".", "1" >>
Spec_word     == << ">", "1", ".", "0", ".", "0", ",", "f", "o", "o" >>
Spec_twice    == << "1", ".", "0", ".", "0", ",", ">", "=", "1", ".", "0", ".", "0" >>

\* Values of --versions.
SpecUniverse ==
  { Spec_empty, Spec_blank, Spec_comma, Spec_ge1, Spec_v1, Spec_v9, Spec_lt2,
    Spec_spaced, Spec_word, Spec_twice }

\* The most tags a repository of the orchestrator's runs holds.
MaxRepoTags == 2

\* The most tags a tag list handed to the matcher alone holds.
MaxTags == 3

\* The tags of a repository of the orchestrator's runs, in git's order.
RepoTagUniverse == << Tag_1_0_0_b, Tag_rc1, Tag_v1_2_0, Tag_v2_0_0beta >>

\* The tags of the list u at the positions in S, in the order of u.
RECURSIVE TagsAt(_, _)
TagsAt(u, S) ==
  IF S = {} THEN << >>
  ELSE LET i == CHOOSE x \in S : \A y \in S : x <= y
       IN  << u[i] >> \o TagsAt(u, S \ {i})

\* The outputs of `git tag --list` with at most n of the tags of u.
TagLists(u, n) ==
  {TagsAt(u, S) : S \in {T \in SUBSET (1..Len(u)) : Cardinality(T) <= n}}

NoVersionsFlag == [given |-> FALSE, value |-> << >>]

VersionsFlag(s) == [given |-> TRUE, value |-> s]

\* Values of --versions in the orchestrator's runs: absent, blank, a range
\* that matches tags, a version no tag has.
CliVersions ==
  {NoVersionsFlag, VersionsFlag(Spec_blank), VersionsFlag(Spec_ge1), VersionsFlag(Spec_v9)}

(***************************************************************************)
(* The revisions of the script                                             *)
(***************************************************************************)

RevBranchLatest  == "branchLatest"   \* docs/scripts/generate-docs.ts, first script
RevFallback      == "fallback"       \* docs/scripts/generate-docs.ts, second script
RevWorkspace     == "workspace"      \* --branch optional, current workspace only
RevBranchCurrent == "branchCurrent"  \* --branch required, label "current"

Revisions == {RevBranchLatest, RevFallback, RevWorkspace, RevBranchCurrent}

LabelCurrent == << "c", "u", "r", "r", "e", "n", "t" >>
LabelLatest  == << "l", "a", "t", "e", "s", "t" >>

\* The label of the build of the current state of the documentation.
CurrentLabel(r) == IF r = RevBranchLatest THEN LabelLatest ELSE LabelCurrent

\* --branch is required by the two branch-aware revisions.
RequiresBranch(r) == r \in {RevBranchLatest, RevBranchCurrent}

\* The revisions that ask git for the current branch before building.
AsksCurrentBranch(r) == r # RevFallback

\* The revisions whose buildDocs checks for package.json.
ChecksPackageJson(r) == r # RevFallback

\* No throw when no tag matched.
ThrowsOnNoMatchNever(r) == FALSE

\* if (tags.length === 0) throw new Error(`No tags matched spec ...`): every
\* revision but the fallback one, which builds the current workspace.
ThrowsOnNoMatch(r) == r # RevFallback

\* The tag builds are followed by the build of the current label in every
\* revision but the fallback one.
BuildsCurrentAfterTags(r) == r # RevFallback

\* The current label is built from the default branch through buildBranch.
BuildsCurrentFromBranch(r, onDefault) == RequiresBranch(r) /\ onDefault

\* versions?.trim() is non-empty (hasVersionsArg, versionsSpec).
HasVersionsArg(v) == v.given /\ Trim(v.value) # << >>

\* builtVersions without the current label after the tags.
BuiltVersionsTagsOnly(r, hasVersions, tags) ==
  IF hasVersions /\ tags # << >> THEN tags ELSE << >>

\* builtVersions, the list the manifest is written from.
BuiltVersions(r, hasVersions, tags) ==
  IF hasVersions /\ tags # << >>
    THEN IF r = RevFallback THEN tags ELSE << CurrentLabel(r) >> \o tags
    ELSE << CurrentLabel(r) >>

(***************************************************************************)
(* State                                                                   *)
(***************************************************************************)

(***************************************************************************)
(* Labels and paths                                                        *)
(***************************************************************************)

\* \w of a JavaScript regular expression, over the characters of the model.
WordChars == Letters \cup Digits \cup {"_"}

\* A character the class [^\w.-] does not match.
SafeChar(c) == c \in WordChars \cup {".", "-"}

\* s without its leading characters that [^\w.-] matches.
RECURSIVE DropUnsafe(_)
DropUnsafe(s) ==
  IF s = << >> \/ SafeChar(Head(s)) THEN s ELSE DropUnsafe(Tail(s))

\* const safeLabel = labelForOutDir.replace(/[^\w.-]+/g, "_"): every run of
\* other characters becomes one underscore.  It names the worktree.
RECURSIVE SafeLabel(_)
SafeLabel(labelForOutDir) ==
  IF labelForOutDir = << >> THEN << >>
  ELSE IF SafeChar(Head(labelForOutDir))
    THEN << Head(labelForOutDir) >> \o SafeLabel(Tail(labelForOutDir))
  ELSE << "_" >> \o SafeLabel(DropUnsafe(Tail(labelForOutDir)))

\* const outDir = resolve(outputDir, labelForOutDir): the subdirectory of
\* generated-docs is named by the label as given.
OutDirName(labelForOutDir) == labelForOutDir

VARIABLES
  rev,            \* the revision of the script that runs
  allTags,        \* output of `git tag --list`
  versionsArg,    \* --versions of the run
  branchArg,      \* --branch given and not blank
  onDefaultBranch,\* getCurrentBranch() === defaultBranch
  pc,             \* position of the run
  phase,          \* "tags" while tags are built, "current" afterwards
  queue,          \* tags still to build
  label,          \* label of the version being built
  viaRef,         \* the build runs inside buildRef / buildFromRef
  wt,             \* files of the worktree: root package.json, nested workspace
  resolved,       \* result of resolveTagsFromSpec
  err,            \* the error being thrown, "none" when none
  origErr,        \* the error thrown inside the try block of buildRef
  cleanupFailed,  \* `git worktree remove` failed in the finally block
  reported,       \* the error printed by the catch handler
  exitCode,       \* -1 while running, then the exit code of the process
  outDir,         \* generated-docs/<label>: absent, empty, partial, fresh, stale
  manifest,       \* app/utils/versions.ts
  runTmpDirs,     \* labels whose mkdtempSync directory of this run exists
  runWorktrees,   \* labels whose worktree of this run exists
  cmds,           \* <<label, command>> pairs invoked in this run
  built,          \* labels whose buildDocs completed in this run
  started,        \* labels whose build was started in this run, in order
  wroteManifest,  \* the manifest was written in this run
  failedLabel     \* label of the version whose build failed, << >> when none

configVars  == << rev, allTags >>
inputVars   == << versionsArg, branchArg, onDefaultBranch >>
controlVars == << pc, phase, queue, label, viaRef, wt >>
errorVars   == << err, origErr, cleanupFailed, reported, exitCode, failedLabel >>
diskVars    == << outDir, manifest, runTmpDirs, runWorktrees >>
logVars     == << cmds, built, started, wroteManifest >>

vars == << configVars, inputVars, controlVars, errorVars, diskVars, logVars, resolved >>

ErrNone == "none"

NoLabel == << >>

Labels == Elems(allTags) \cup {LabelCurrent, LabelLatest}

NoManifest == [exists |-> FALSE, versions |-> << >>]

NoWorktree == [rootPkg |-> FALSE, nested |-> FALSE]

\* resolveTagsFromSpec has not been called.
NotResolved == [called |-> FALSE, threw |-> FALSE, tags |-> << >>]

\* The state before the first run: a revision, a repository, a command line,
\* and a disk with no output.
InitRun(tagLists, versions, firstPc) ==
  /\ rev \in Revisions
  /\ allTags \in tagLists
  /\ versionsArg \in versions
  /\ branchArg \in BOOLEAN
  /\ onDefaultBranch = FALSE
  /\ pc = firstPc
  /\ phase = "tags"
  /\ queue = << >>
  /\ label = NoLabel
  /\ viaRef = FALSE
  /\ wt = NoWorktree
  /\ resolved = NotResolved
  /\ err = ErrNone
  /\ origErr = ErrNone
  /\ cleanupFailed = FALSE
  /\ reported = ErrNone
  /\ exitCode = -1
  /\ outDir = [l \in Labels |-> "absent"]
  /\ manifest = NoManifest
  /\ runTmpDirs = {}
  /\ runWorktrees = {}
  /\ cmds = {}
  /\ built = {}
  /\ started = << >>
  /\ wroteManifest = FALSE
  /\ failedLabel = NoLabel

Init == InitRun(TagLists(RepoTagUniverse, MaxRepoTags), CliVersions, "idle")

(***************************************************************************)
(* Control flow helpers                                                    *)
(***************************************************************************)

\* An error thrown outside buildRef's try block reaches the catch handler of
\* main; inside it, the finally block runs first.
ThrowTo(inTry) == IF inTry THEN "worktreeRemove" ELSE "catch"

\* A per-version failure that is swallowed: the loop goes on.
ThrowContinues(e, inTry) ==
  /\ err' = ErrNone
  /\ origErr' = ErrNone
  /\ failedLabel' = label
  /\ pc' = "nextVersion"
  /\ UNCHANGED << cleanupFailed, reported, exitCode >>

\* throw new Error(e) while the version `label` is built.
Throw(e, inTry) ==
  /\ err' = e
  /\ origErr' = IF inTry THEN e ELSE origErr
  /\ failedLabel' = label
  /\ pc' = ThrowTo(inTry)
  /\ UNCHANGED << cleanupFailed, reported, exitCode >>

\* The build of the current label starts: through buildBranch on the default
\* branch of a branch-aware revision, else buildDocs on the workspace.
BeginCurrent ==
  /\ phase' = "current"
  /\ label' = CurrentLabel(rev)
  /\ started' = Append(started, CurrentLabel(rev))
  /\ IF BuildsCurrentFromBranch(rev, onDefaultBranch)
       THEN viaRef' = TRUE /\ pc' = "fetch"
       ELSE viaRef' = FALSE /\ pc' = "checkSource"

(***************************************************************************)
(* main                                                                    *)
(***************************************************************************)

\* The script is started again with the same command line: a new process;
\* what earlier runs left on disk stays, and their artifacts are now stale.
StartRun ==
  /\ pc \in {"idle", "done"}
  /\ versionsArg' = versionsArg
  /\ branchArg' = branchArg
  /\ onDefaultBranch' = FALSE
  /\ pc' = "parseArgs"
  /\ phase' = "tags"
  /\ queue' = << >>
  /\ label' = NoLabel
  /\ viaRef' = FALSE
  /\ wt' = NoWorktree
  /\ resolved' = NotResolved
  /\ err' = ErrNone
  /\ origErr' = ErrNone
  /\ cleanupFailed' = FALSE
  /\ reported' = ErrNone
  /\ exitCode' = -1
  /\ failedLabel' = NoLabel
  /\ outDir' = [l \in Labels |-> IF outDir[l] = "fresh" THEN "stale" ELSE outDir[l]]
  /\ runTmpDirs' = {}
  /\ runWorktrees' = {}
  /\ cmds' = {}
  /\ built' = {}
  /\ started' = << >>
  /\ wroteManifest' = FALSE
  /\ UNCHANGED << configVars, manifest >>

\* parseArgs and the check of the required --branch flag.
ParseArgs ==
  /\ pc = "parseArgs"
  /\ IF RequiresBranch(rev) /\ ~branchArg
       THEN /\ err' = "Missing required --branch flag"
            /\ pc' = "catch"
       ELSE /\ err' = err
            /\ pc' = IF AsksCurrentBranch(rev) THEN "getCurrentBranch" ELSE "selectVersions"
  /\ UNCHANGED << configVars, inputVars, phase, queue, label, viaRef, wt, resolved,
                  origErr, cleanupFailed, reported, exitCode, failedLabel,
                  diskVars, logVars >>

\* getCurrentBranch(): `git rev-parse --abbrev-ref HEAD`; the branch-aware
\* revisions compare its result with --branch.
GetCurrentBranch ==
  /\ pc = "getCurrentBranch"
  /\ \E ok \in BOOLEAN, onDefault \in BOOLEAN :
       /\ (~ok \/ ~RequiresBranch(rev)) => ~onDefault
       /\ onDefaultBranch' = onDefault
       /\ IF ok
            THEN /\ err' = err
                 /\ pc' = IF rev = RevBranchCurrent /\ ~onDefault
                            THEN "getCurrentBranchAgain" ELSE "selectVersions"
            ELSE /\ err' = "Failed to get current branch"
                 /\ pc' = "catch"
  /\ UNCHANGED << configVars, versionsArg, branchArg, phase, queue, label, viaRef, wt,
                  resolved, origErr, cleanupFailed, reported, exitCode, failedLabel,
                  diskVars, logVars >>

\* onDefaultBranch ? defaultBranch : getCurrentBranch()
GetCurrentBranchAgain ==
  /\ pc = "getCurrentBranchAgain"
  /\ \E ok \in BOOLEAN :
       IF ok THEN err' = err /\ pc' = "selectVersions"
             ELSE err' = "Failed to get current branch" /\ pc' = "catch"
  /\ UNCHANGED << configVars, inputVars, phase, queue, label, viaRef, wt, resolved,
                  origErr, cleanupFailed, reported, exitCode, failedLabel,
                  diskVars, logVars >>

\* if (hasVersionsArg) ... else: without versions the current label alone is built.
SelectVersions ==
  /\ pc = "selectVersions"
  /\ IF HasVersionsArg(versionsArg)
       THEN /\ pc' = "resolveTags"
            /\ UNCHANGED << phase, label, viaRef, started >>
       ELSE BeginCurrent
  /\ UNCHANGED << configVars, inputVars, queue, wt, resolved, errorVars, diskVars,
                  cmds, built, wroteManifest >>

\* const tags = resolveTagsFromSpec(versions) and the check of its length.
ResolveTags ==
  /\ pc = "resolveTags"
  /\ \E ok \in BOOLEAN :
       IF ~ok
         THEN /\ err' = "Command failed: git tag --list"
              /\ pc' = "catch"
              /\ UNCHANGED << resolved, queue, phase, label, viaRef, started >>
         ELSE LET r == resolveTagsFromSpec(Trim(versionsArg.value), allTags)
              IN  /\ resolved' = [called |-> TRUE, threw |-> r.threw, tags |-> r.tags]
                  /\ IF r.tags = << >>
                       THEN IF ThrowsOnNoMatch(rev)
                              THEN /\ err' = "No tags matched spec"
                                   /\ pc' = "catch"
                                   /\ UNCHANGED << queue, phase, label, viaRef, started >>
                              ELSE /\ err' = err
                                   /\ queue' = queue
                                   /\ BeginCurrent
                       ELSE /\ err' = err
                            /\ queue' = r.tags
                            /\ pc' = "nextVersion"
                            /\ UNCHANGED << phase, label, viaRef, started >>
  /\ UNCHANGED << configVars, inputVars, wt, origErr, cleanupFailed, reported, exitCode,
                  failedLabel, diskVars, cmds, built, wroteManifest >>

\* for (const tag of tags) buildTag(tag), then the current label, then the manifest.
NextVersion ==
  /\ pc = "nextVersion"
  /\ IF queue # << >>
       THEN /\ label' = Head(queue)
            /\ queue' = Tail(queue)
            /\ started' = Append(started, Head(queue))
            /\ viaRef' = TRUE
            /\ pc' = "mkdtemp"
            /\ phase' = phase
       ELSE IF phase = "tags" /\ BuildsCurrentAfterTags(rev)
         THEN queue' = queue /\ BeginCurrent
         ELSE /\ pc' = "writeVersions"
              /\ UNCHANGED << queue, phase, label, viaRef, started >>
  /\ UNCHANGED << configVars, inputVars, wt, resolved, errorVars, diskVars,
                  cmds, built, wroteManifest >>

\* writeFileSync(versionsFile, ...) and the end of main.
WriteVersions ==
  /\ pc = "writeVersions"
  /\ \E ok \in BOOLEAN :
       IF ok
         THEN /\ manifest' = [exists |-> TRUE,
                              versions |-> BuiltVersions(rev, HasVersionsArg(versionsArg),
                                                         resolved.tags)]
              /\ wroteManifest' = TRUE
              /\ exitCode' = 0
              /\ pc' = "done"
              /\ err' = err
         ELSE /\ err' = "writeFileSync failed"
              /\ pc' = "catch"
              /\ UNCHANGED << manifest, wroteManifest, exitCode >>
  /\ UNCHANGED << configVars, inputVars, phase, queue, label, viaRef, wt, resolved,
                  origErr, cleanupFailed, reported, failedLabel,
                  outDir, runTmpDirs, runWorktrees, cmds, built, started >>

\* .catch(e => { console.error(..., e); process.exit(1) })
Catch ==
  /\ pc = "catch"
  /\ reported' = err
  /\ exitCode' = 1
  /\ pc' = "done"
  /\ UNCHANGED << configVars, inputVars, phase, queue, label, viaRef, wt, resolved,
                  err, origErr, cleanupFailed, failedLabel, diskVars, logVars >>

(***************************************************************************)
(* buildBranch, buildRef / buildFromRef, installDependencies               *)
(***************************************************************************)

Invoke(cmd) == cmds' = cmds \cup {<< label, cmd >>}

\* buildBranch: `git fetch --tags --prune origin <branch>`, then buildRef on
\* the local or the remote ref.
Fetch ==
  /\ pc = "fetch"
  /\ Invoke("fetch")
  /\ \E ok \in BOOLEAN :
       IF ok
         THEN /\ pc' = "mkdtemp"
              /\ UNCHANGED errorVars
         ELSE Throw("Command failed: git fetch", FALSE)
  /\ UNCHANGED << configVars, inputVars, phase, queue, label, viaRef, wt, resolved,
                  diskVars, built, started, wroteManifest >>

\* const tmpBase = mkdtempSync(...)
Mkdtemp ==
  /\ pc = "mkdtemp"
  /\ runTmpDirs' = runTmpDirs \cup {label}
  /\ pc' = "worktreeAdd"
  /\ UNCHANGED << configVars, inputVars, phase, queue, label, viaRef, wt, resolved,
                  errorVars, outDir, manifest, runWorktrees, logVars >>

\* run(`git worktree add --detach ...`), before the try block.
WorktreeAdd ==
  /\ pc = "worktreeAdd"
  /\ Invoke("worktreeAdd")
  /\ \E ok \in BOOLEAN :
       IF ok
         THEN /\ runWorktrees' = runWorktrees \cup {label}
              /\ pc' = "install"
              /\ UNCHANGED errorVars
         ELSE /\ runWorktrees' = runWorktrees
              /\ Throw("Command failed: git worktree add", FALSE)
  /\ UNCHANGED << configVars, inputVars, phase, queue, label, viaRef, wt, resolved,
                  outDir, manifest, runTmpDirs, built, started, wroteManifest >>

\* The root install: if (rootPkg) run(`pnpm install ...`).  The files of the
\* checkout are read here: a root package.json, and whether the docs
\* workspace is a subdirectory of the checkout.
Install ==
  /\ pc = "install"
  /\ \E rootPkg \in BOOLEAN, nested \in BOOLEAN, ok \in BOOLEAN :
       /\ (~rootPkg => ok)
       /\ wt' = [rootPkg |-> rootPkg, nested |-> nested]
       /\ cmds' = IF rootPkg THEN cmds \cup {<< label, "install" >>} ELSE cmds
       /\ IF ok
            THEN /\ pc' = IF rev = RevFallback /\ nested THEN "installNested"
                          ELSE "checkSource"
                 /\ UNCHANGED errorVars
            ELSE Throw("Command failed: pnpm install", TRUE)
  /\ UNCHANGED << configVars, inputVars, phase, queue, label, viaRef, resolved,
                  diskVars, built, started, wroteManifest >>

\* installDependencies, second part: the docs workspace differs from the
\* checkout root and has a package.json and a lockfile of its own.
InstallNested ==
  /\ pc = "installNested"
  /\ \E docsPkgAndLock \in BOOLEAN, ok \in BOOLEAN :
       /\ (~docsPkgAndLock => ok)
       /\ cmds' = IF docsPkgAndLock THEN cmds \cup {<< label, "install" >>} ELSE cmds
       /\ IF ok
            THEN pc' = "checkSource" /\ UNCHANGED errorVars
            ELSE Throw("Command failed: pnpm install", TRUE)
  /\ UNCHANGED << configVars, inputVars, phase, queue, label, viaRef, wt, resolved,
                  diskVars, built, started, wroteManifest >>

\* A finally block that swallows the failure of `git worktree remove`: the
\* worktree stays and buildRef goes on to rmSync and returns.
WorktreeRemoveSwallowed ==
  /\ pc = "worktreeRemove"
  /\ Invoke("worktreeRemove")
  /\ \E ok \in BOOLEAN :
       runWorktrees' = IF ok THEN runWorktrees \ {label} ELSE runWorktrees
  /\ pc' = "rmTmp"
  /\ UNCHANGED errorVars
  /\ UNCHANGED << configVars, inputVars, phase, queue, label, viaRef, wt, resolved,
                  outDir, manifest, runTmpDirs, built, started, wroteManifest >>

\* finally: run(`git worktree remove ... --force`).  A failure is thrown from
\* the finally block: it replaces the error of the try block and
\* rmSync(tmpBase) is not reached.
WorktreeRemove ==
  /\ pc = "worktreeRemove"
  /\ Invoke("worktreeRemove")
  /\ \E ok \in BOOLEAN :
       IF ok
         THEN /\ runWorktrees' = runWorktrees \ {label}
              /\ pc' = "rmTmp"
              /\ UNCHANGED errorVars
         ELSE /\ runWorktrees' = runWorktrees
              /\ err' = "Command failed: git worktree remove"
              /\ cleanupFailed' = TRUE
              /\ failedLabel' = label
              /\ pc' = "catch"
              /\ UNCHANGED << origErr, reported, exitCode >>
  /\ UNCHANGED << configVars, inputVars, phase, queue, label, viaRef, wt, resolved,
                  outDir, manifest, runTmpDirs, built, started, wroteManifest >>

\* finally: rmSync(tmpBase, { recursive: true, force: true }); then the
\* pending error of the try block, if any, goes on to the caller.
RmTmp ==
  /\ pc = "rmTmp"
  /\ runTmpDirs' = runTmpDirs \ {label}
  /\ wt' = NoWorktree
  /\ pc' = IF err = ErrNone THEN "nextVersion" ELSE "catch"
  /\ UNCHANGED << configVars, inputVars, phase, queue, label, viaRef, resolved,
                  errorVars, outDir, manifest, runWorktrees, logVars >>

(***************************************************************************)
(* buildDocs                                                               *)
(***************************************************************************)

\* buildDocs with resetDir(outDir) moved in front of the check of the
\* source directory.
CheckSourceAfterReset ==
  /\ pc = "checkSource"
  /\ outDir' = [outDir EXCEPT ![label] = "empty"]
  /\ \E exists \in BOOLEAN :
       /\ (~(viaRef /\ wt.nested) => exists)
       /\ IF exists
            THEN pc' = "checkContent" /\ UNCHANGED errorVars
            ELSE Throw("Documentation workspace not found", viaRef)
  /\ UNCHANGED << configVars, inputVars, phase, queue, label, viaRef, wt, resolved,
                  manifest, runTmpDirs, runWorktrees, logVars >>

\* if (!existsSync(sourceDir)) throw.  The checkout root and the workspace
\* the script runs in exist; a nested docs workspace may be missing in the
\* checkout of an old ref.
CheckSource ==
  /\ pc = "checkSource"
  /\ \E exists \in BOOLEAN :
       /\ (~(viaRef /\ wt.nested) => exists)
       /\ IF exists
            THEN pc' = "checkContent" /\ UNCHANGED errorVars
            ELSE Throw("Documentation workspace not found", viaRef)
  /\ UNCHANGED << configVars, inputVars, phase, queue, label, viaRef, wt, resolved,
                  diskVars, logVars >>

\* if (!existsSync(resolve(sourceDir, "content"))) throw
CheckContent ==
  /\ pc = "checkContent"
  /\ \E exists \in BOOLEAN :
       IF exists
         THEN /\ pc' = IF ChecksPackageJson(rev) THEN "checkPackageJson" ELSE "resetOut"
              /\ UNCHANGED errorVars
         ELSE Throw("Content directory not found", viaRef)
  /\ UNCHANGED << configVars, inputVars, phase, queue, label, viaRef, wt, resolved,
                  diskVars, logVars >>

\* if (!existsSync(resolve(sourceDir, "package.json"))) throw.  When the
\* source directory is the checkout root this is the file the install read.
CheckPackageJson ==
  /\ pc = "checkPackageJson"
  /\ \E exists \in BOOLEAN :
       /\ (viaRef /\ ~wt.nested => exists = wt.rootPkg)
       /\ IF exists
            THEN pc' = "resetOut" /\ UNCHANGED errorVars
            ELSE Throw("package.json not found", viaRef)
  /\ UNCHANGED << configVars, inputVars, phase, queue, label, viaRef, wt, resolved,
                  diskVars, logVars >>

\* resetDir(outDir): removed if present, then created empty.
ResetOut ==
  /\ pc = "resetOut"
  /\ outDir' = [outDir EXCEPT ![OutDirName(label)] = "empty"]
  /\ pc' = "buildCmd"
  /\ UNCHANGED << configVars, inputVars, phase, queue, label, viaRef, wt, resolved,
                  errorVars, manifest, runTmpDirs, runWorktrees, logVars >>

\* run("pnpm run content-collections:build", { cwd: sourceDir })
BuildCmd ==
  /\ pc = "buildCmd"
  /\ Invoke("build")
  /\ \E ok \in BOOLEAN :
       IF ok
         THEN pc' = "checkArtifact" /\ UNCHANGED errorVars
         ELSE Throw("Command failed: pnpm run content-collections:build", viaRef)
  /\ UNCHANGED << configVars, inputVars, phase, queue, label, viaRef, wt, resolved,
                  diskVars, built, started, wroteManifest >>

\* A missing artifact directory reported the way run() reports a command
\* that exits non-zero.
CheckArtifactAsCommandFailure ==
  /\ pc = "checkArtifact"
  /\ \E exists \in BOOLEAN :
       IF exists
         THEN pc' = "copy" /\ UNCHANGED errorVars
         ELSE Throw("Command failed: pnpm run content-collections:build", viaRef)
  /\ UNCHANGED << configVars, inputVars, phase, queue, label, viaRef, wt, resolved,
                  diskVars, logVars >>

\* if (!existsSync(ccSrc)) throw new Error("Build output missing ...")
CheckArtifact ==
  /\ pc = "checkArtifact"
  /\ \E exists \in BOOLEAN :
       IF exists
         THEN pc' = "copy" /\ UNCHANGED errorVars
         ELSE Throw("Build output missing", viaRef)
  /\ UNCHANGED << configVars, inputVars, phase, queue, label, viaRef, wt, resolved,
                  diskVars, logVars >>

\* resetDir(ccDest); cpSync(ccSrc, ccDest, { recursive: true }).  A copy that
\* fails leaves the directory partly filled.
Copy ==
  /\ pc = "copy"
  /\ \E ok \in BOOLEAN :
       IF ok
         THEN /\ outDir' = [outDir EXCEPT ![OutDirName(label)] = "fresh"]
              /\ built' = built \cup {label}
              /\ pc' = IF viaRef THEN "worktreeRemove" ELSE "nextVersion"
              /\ UNCHANGED errorVars
         ELSE /\ outDir' = [outDir EXCEPT ![OutDirName(label)] = "partial"]
              /\ built' = built
              /\ Throw("cpSync failed", viaRef)
  /\ UNCHANGED << configVars, inputVars, phase, queue, label, viaRef, wt, resolved,
                  manifest, runTmpDirs, runWorktrees, cmds, started, wroteManifest >>

(***************************************************************************)
(* Specifications                                                          *)
(***************************************************************************)

Next ==
  \/ StartRun
  \/ ParseArgs
  \/ GetCurrentBranch
  \/ GetCurrentBranchAgain
  \/ SelectVersions
  \/ ResolveTags
  \/ NextVersion
  \/ Fetch
  \/ Mkdtemp
  \/ WorktreeAdd
  \/ Install
  \/ InstallNested
  \/ CheckSource
  \/ CheckContent
  \/ CheckPackageJson
  \/ ResetOut
  \/ BuildCmd
  \/ CheckArtifact
  \/ Copy
  \/ WorktreeRemove
  \/ RmTmp
  \/ WriteVersions
  \/ Catch

Spec == Init /\ [][Next]_vars

\* The matcher alone, in each revision: a tag list and a spec string, then
\* one call of resolveTagsFromSpec.
MatchInit ==
  /\ InitRun(TagLists(TagUniverse, MaxTags), {VersionsFlag(s) : s \in SpecUniverse}, "match")
  /\ branchArg = TRUE

MatchResolve ==
  /\ pc = "match"
  /\ LET r == resolveTagsFromSpec(versionsArg.value, allTags)
     IN  resolved' = [called |-> TRUE, threw |-> r.threw, tags |-> r.tags]
  /\ pc' = "matched"
  /\ UNCHANGED << configVars, inputVars, phase, queue, label, viaRef, wt,
                  errorVars, diskVars, logVars >>

MatchNext == MatchResolve

SpecMatch == MatchInit /\ [][MatchNext]_vars

(***************************************************************************)
(* Properties                                                              *)
(***************************************************************************)

RunEnded == pc = "done"

RunSucceeded == pc = "done" /\ exitCode = 0

RunFailed == pc = "done" /\ exitCode = 1

\* C1: after every successful run, in every revision, the manifest is the
\* current/latest label followed by exactly the tags resolveTagsFromSpec
\* returned, in that order.
C1_ManifestCurrentThenTags ==
  RunSucceeded =>
    /\ manifest.exists
    /\ manifest.versions = << CurrentLabel(rev) >> \o resolved.tags

\* C2: whenever control is outside buildRef / buildFromRef (it returned or
\* threw), no temporary worktree and no mkdtempSync directory of this run is
\* left on disk.
C2_NoTempDirOutsideBuildRef ==
  pc \in {"nextVersion", "writeVersions", "catch", "done"} =>
    runTmpDirs = {} /\ runWorktrees = {}

\* C3: when a step inside the try block of buildRef failed and the removal of
\* the worktree failed too, the error printed before exit is the error of
\* the try block.
C3_OriginalErrorReported ==
  RunEnded /\ origErr # ErrNone /\ cleanupFailed => reported = origErr

\* C4: once the build of one version has failed, that version is the last
\* one started: no command is invoked and no worktree exists for another
\* version, the manifest is not written in the run, and the run ends with
\* exit code 1.
C4_FailureAbortsRun ==
  failedLabel # NoLabel =>
    /\ started # << >>
    /\ started[Len(started)] = failedLabel
    /\ \A i \in 1..Len(queue) : \A c \in cmds : c[1] # queue[i]
    /\ \A i \in 1..Len(queue) : queue[i] \notin Elems(started)
    /\ runWorktrees \subseteq {failedLabel}
    /\ ~wroteManifest
    /\ pc \in {"worktreeRemove", "rmTmp", "catch", "done"}
    /\ (RunEnded => exitCode = 1)

\* A run failed in the build of a version while later versions were waiting.
C4_Witness ==
  /\ RunFailed
  /\ failedLabel # NoLabel
  /\ queue # << >>
  /\ reported = "Command failed: pnpm run content-collections:build"

\* C5: at the end of every run the manifest on disk lists no label whose
\* output directory was reset or partly filled by a build that did not
\* complete.
C5_ManifestListsNoHalfBuilt ==
  RunEnded /\ manifest.exists =>
    \A i \in 1..Len(manifest.versions) :
       outDir[manifest.versions[i]] \notin {"empty", "partial"}

\* C6: every successful run, in every revision, has built the current/latest
\* label.
C6_CurrentLabelAlwaysBuilt ==
  RunSucceeded => CurrentLabel(rev) \in built

\* The string holds blanks only.
Blank(s) == \A i \in 1..Len(s) : s[i] = " "

\* The string between its first and its last character that is no blank.
Trimmed(s) ==
  IF Blank(s) THEN << >>
  ELSE LET ks == {i \in 1..Len(s) : s[i] # " "}
           lo == CHOOSE i \in ks : \A j \in ks : i <= j
           hi == CHOOSE i \in ks : \A j \in ks : i >= j
       IN  SubSeq(s, lo, hi)

\* The maximal comma-free pieces of a string.
CommaSegments(s) ==
  {SubSeq(s, i, j) : << i, j >> \in
     {p \in (1..(Len(s) + 1)) \X (0..Len(s)) :
        /\ p[1] <= p[2] + 1
        /\ (p[1] = 1 \/ s[p[1] - 1] = ",")
        /\ (p[2] = Len(s) \/ s[p[2] + 1] = ",")
        /\ \A k \in p[1]..p[2] : s[k] # ","}}

\* The comma-separated, trimmed, non-empty tokens of a spec.
TokensOf(s) == {Trimmed(g) : g \in CommaSegments(s)} \ {<< >>}

\* The tag is a semantic version that satisfies a token of the spec,
\* prereleases included.
TagSatisfiesSpec(t, s) ==
  valid(t) /\ \E tok \in TokensOf(s) : satisfies(t, tok, TRUE)

NoVersionsRequested == ~versionsArg.given \/ Blank(versionsArg.value)

\* --versions was given and no tag of the repository satisfies it.
NoTagMatches ==
  /\ ~NoVersionsRequested
  /\ \A t \in Elems(allTags) : ~TagSatisfiesSpec(t, versionsArg.value)

\* C7: every tag entry of a manifest on disk is a tag of the repository; and
\* a run with --versions that no tag satisfies has built no tag, and either
\* (fallback revision) it started nothing but the build of the current
\* workspace and the manifest it wrote, which it did if it succeeded, is
\* ["current"], or (other revisions) it built nothing, wrote no manifest and
\* exited with code 1, the error being "No tags matched" once the tags had
\* been resolved.
C7_NoMatchPolicy ==
  /\ manifest.exists =>
       \A i \in 1..Len(manifest.versions) :
          \/ manifest.versions[i] \in {LabelCurrent, LabelLatest}
          \/ manifest.versions[i] \in Elems(allTags)
  /\ RunEnded /\ NoTagMatches =>
       /\ \A c \in cmds : c[1] \notin Elems(allTags)
       /\ IF rev = RevFallback
            THEN /\ Elems(started) \subseteq {LabelCurrent}
                 /\ (wroteManifest => manifest.versions = << LabelCurrent >>)
                 /\ (exitCode = 0 => wroteManifest /\ built = {LabelCurrent})
            ELSE /\ started = << >>
                 /\ ~wroteManifest
                 /\ ~manifest.exists
                 /\ exitCode = 1
                 /\ (resolved.called => reported = "No tags matched spec")

\* A run of a revision that throws ended with "No tags matched" although the
\* repository has tags.
C7_Witness ==
  /\ RunFailed
  /\ rev # RevFallback
  /\ NoTagMatches
  /\ Tag_v1_2_0 \in Elems(allTags)
  /\ reported = "No tags matched spec"
  /\ ~manifest.exists

\* C8: a manifest on disk is never the empty list; and a successful run
\* without --versions (absent or blank) built the current/latest label and
\* nothing else, invoked no command and created no worktree for a tag, and
\* wrote the manifest with that label as its only entry.
C8_NoVersionsBuildsCurrentOnly ==
  /\ manifest.exists => manifest.versions # << >>
  /\ RunSucceeded /\ NoVersionsRequested =>
       /\ built = {CurrentLabel(rev)}
       /\ started = << CurrentLabel(rev) >>
       /\ \A c \in cmds : c[1] = CurrentLabel(rev)
       /\ wroteManifest
       /\ manifest = [exists |-> TRUE, versions |-> << CurrentLabel(rev) >>]

\* A run with a blank --versions in a repository with tags succeeded.
C8_Witness ==
  /\ RunSucceeded
  /\ versionsArg = VersionsFlag(Spec_blank)
  /\ allTags # << >>
  /\ manifest.versions = << CurrentLabel(rev) >>

Precedence(a, b) == Compare(SemVer(a), SemVer(b))

\* C10 as stated: the result is strictly descending, so no two of its tags
\* have the same precedence.
C10_StrictlyDescending ==
  pc = "matched" =>
    \A i, j \in 1..Len(resolved.tags) :
       i < j => Precedence(resolved.tags[i], resolved.tags[j]) > 0

\* C10 amended: the result is descending, not strictly: a tag is never
\* followed by a tag of higher precedence, tags of equal precedence are all
\* kept, and no tag name appears twice.
C10_DescendingNotStrict ==
  pc = "matched" =>
    \A i, j \in 1..Len(resolved.tags) :
       i < j => /\ Precedence(resolved.tags[i], resolved.tags[j]) >= 0
                /\ resolved.tags[i] # resolved.tags[j]

\* Two tags of the same version follow a higher one.
C10_Witness ==
  /\ pc = "matched"
  /\ resolved.tags = << Tag_v1_2_0, Tag_1_0_0, Tag_v1_0_0 >>

\* C11: when the source directory does not exist, buildDocs throws its
\* "workspace not found" error in the very step that enters it: no command
\* is invoked and the output directories stay as they were.
C11_MissingSourceTouchesNothing ==
  [][pc = "checkSource" /\ pc' # "checkContent" =>
       /\ err' = "Documentation workspace not found"
       /\ failedLabel' = label
       /\ cmds' = cmds
       /\ outDir' = outDir
       /\ manifest' = manifest]_vars

\* buildDocs has just thrown for a nested docs workspace that the checkout
\* of an old ref does not have, over output left by an earlier run.
C11_Witness ==
  /\ pc = "worktreeRemove"
  /\ origErr = "Documentation workspace not found"
  /\ outDir[label] = "stale"

\* C12: when the content build command succeeded and the artifact directory
\* is missing, buildDocs throws "Build output missing", which is not the
\* "Command failed" error of a command that exits non-zero; the output
\* directory of the label stays empty and the label is not built.
C12_MissingArtifactIsItsOwnError ==
  [][/\ (pc = "checkArtifact" /\ pc' # "copy" =>
           /\ << label, "build" >> \in cmds
           /\ err' = "Build output missing"
           /\ err' # "Command failed: pnpm run content-collections:build"
           /\ outDir'[label] = "empty"
           /\ built' = built
           /\ label \notin built')
     /\ (pc = "buildCmd" /\ pc' # "checkArtifact" =>
           /\ err' = "Command failed: pnpm run content-collections:build"
           /\ err' # "Build output missing")]_vars

\* The build command of a tag succeeded without producing its artifact
\* directory, and the run ended on that error.
C12_Witness ==
  /\ RunFailed
  /\ viaRef
  /\ reported = "Build output missing"
  /\ << label, "build" >> \in cmds
  /\ outDir[label] = "empty"

\* A string the replacement of buildRef leaves as it is.
IsSafeName(s) == SafeLabel(s) = s

\* C13: every subdirectory of generated-docs the script made and every
\* entry of the manifest is the safe form of its label: a character outside
\* word characters, dot and hyphen has been replaced by an underscore.
C13_LabelsAreSafe ==
  /\ \A l \in Labels : outDir[l] # "absent" => IsSafeName(l)
  /\ \A i \in 1..Len(manifest.versions) : IsSafeName(manifest.versions[i])

\* C14: after a run in which the build of a label was started and failed,
\* the output directory of that label holds no artifact of an earlier run.
C14_NoStaleAfterFailedBuild ==
  RunFailed /\ failedLabel # NoLabel => outDir[OutDirName(failedLabel)] # "stale"

\* A pnpm install of the checkout being built has failed.
InstallFailed == origErr = "Command failed: pnpm install"

\* After a failed install the build of the checkout goes no further than
\* the cleanup: no build command, no reset of the output directory.
NoBuildAfterFailedInstall ==
  InstallFailed =>
    /\ viaRef
    /\ << label, "install" >> \in cmds
    /\ << label, "build" >> \notin cmds
    /\ pc \in {"worktreeRemove", "rmTmp", "catch", "done"}
    /\ (pc \in {"rmTmp", "catch", "done"} => << label, "worktreeRemove" >> \in cmds)

\* C15: in a ref-based build a failed pnpm install is fatal: the build
\* command is never invoked for that checkout, its output directory is not
\* reset, and once the worktree cleanup has been attempted the install
\* failure is what reaches the caller.
C15_InstallFailureIsFatal ==
  /\ NoBuildAfterFailedInstall
  /\ (InstallFailed /\ pc \in {"catch", "done"} => err = origErr)
  /\ (InstallFailed /\ RunEnded => exitCode = 1 /\ reported = origErr)

\* The source directory of the ref-based build in progress is the checkout
\* root and has no package.json.
RefSourceWithoutPackageJson ==
  /\ viaRef
  /\ pc \notin {"mkdtemp", "worktreeAdd", "install"}
  /\ label \in runWorktrees
  /\ ~wt.nested
  /\ ~wt.rootPkg

\* C16: in every revision a ref-based build whose source directory has no
\* package.json fails before the output directory is reset and before the
\* content build command is invoked.
C16_RefBuildNeedsPackageJson ==
  RefSourceWithoutPackageJson =>
    /\ pc \notin {"resetOut", "buildCmd", "checkArtifact", "copy"}
    /\ << label, "build" >> \notin cmds
    /\ label \notin built

\* C17: at every point of a run at most one worktree created by the run
\* exists, the one of the version being built; a worktree is created only
\* when every worktree created earlier in the run has been removed.
C17_OneWorktreeAtATime ==
  /\ Cardinality(runWorktrees) <= 1
  /\ runWorktrees \subseteq {label}
  /\ (pc \in {"nextVersion", "fetch", "mkdtemp", "worktreeAdd"} => runWorktrees = {})

\* The worktree of the second version of a run exists, after the first
\* version was built and its worktree removed.
C17_Witness ==
  /\ Len(started) >= 2
  /\ started[1] \in built
  /\ << started[1], "worktreeRemove" >> \in cmds
  /\ label = started[2]
  /\ runWorktrees = {label}

====
